---- MODULE Spec2Model ----
(***************************************************************************)
(* Football play-by-play logger (PlayByPlayLogger.js) and the scoring      *)
(* summary compressor (processEvents / ScoringSummary in const.js).        *)
(*                                                                         *)
(* Modelling conventions                                                   *)
(*  - A JavaScript object is a record that holds exactly the fields that   *)
(*    were passed; a field that is not in the record's domain is           *)
(*    `undefined`.                                                         *)
(*  - A string is a sequence of tokens (words and punctuation);            *)
(*    String.includes is contiguous-subsequence search over tokens and     *)
(*    toLowerCase maps every token to its lower-case form.                 *)
(*  - The game clock is a real number of minutes in the source; here it is *)
(*    the same quantity counted in whole seconds (clock = seconds / 60).   *)
(*  - Two loggers, one constructed with active = TRUE and one with         *)
(*    active = FALSE, receive the same calls.                              *)
(***************************************************************************)
EXTENDS Integers, Sequences, FiniteSets, TLC

\* Number of logger calls (logEvent or logStat) made by the simulation loop.
MaxCalls == 3

\* Length of the event sequence handed to processEvents.
MaxEvents == 3

VARIABLES
    loggers,    \* [BOOLEAN -> logger object], indexed by the constructor's `active`
    trace,      \* the calls made so far, in order
    outcome,    \* "" when the last logEvent call returned, else the Error message
    events,     \* processEvents: its argument
    pos,        \* processEvents: how many events the loop has consumed
    score,      \* processEvents: the running score
    processedEvents, \* processEvents: the condensed rows
    boxScoreProp, \* BoxScore: the box score document it was last given
    prevProps,  \* ScoringSummary: the props of its last render
    output      \* ScoringSummary: what its last render returned

loggerVars == <<loggers, trace, outcome>>
compressorVars == <<events, pos, score, processedEvents>>
renderVars == <<boxScoreProp, prevProps, output>>
vars == <<loggers, trace, outcome, events, pos, score, processedEvents,
          boxScoreProp, prevProps, output>>

-----------------------------------------------------------------------------
(* JavaScript values *)

\* `undefined` where a string is expected
undefined == "undefined"

\* `undefined` where a team number (0 | 1) is expected
NoTeam == -1

Has(obj, f) == f \in DOMAIN obj

Truthy(obj, f) == Has(obj, f) /\ obj[f] = TRUE

\* String.prototype.includes, over tokens
Includes(text, phrase) ==
    \E i \in 1..(Len(text) - Len(phrase) + 1) :
        SubSeq(text, i, i + Len(phrase) - 1) = phrase

LowerToken(w) ==
    CASE w = "Two" -> "two"
      [] w = "Start" -> "start"
      [] w = "Incomplete" -> "incomplete"
      [] w = "Name0" -> "name0"
      [] w = "Name1" -> "name1"
      [] OTHER -> w

\* String.prototype.toLowerCase
ToLowerCase(text) == [i \in 1..Len(text) |-> LowerToken(text[i])]

Num(c, f) == IF Has(c, f) THEN ToString(c[f]) ELSE undefined

NameAt(c, i) == IF i <= Len(c.names) THEN c.names[i] ELSE undefined

-----------------------------------------------------------------------------
(* PlayByPlayLogger *)

NewLogger(active) ==
    [active |-> active,
     playByPlay |-> <<>>,
     scoringSummary |-> <<>>,
     twoPointConversionState |-> undefined,
     twoPointConversionTeam |-> NoTeam,
     quarter |-> "Q1"]

descriptionYdsTD(yds, td, touchdownText, showYdsOnTD) ==
    IF td /\ showYdsOnTD
        THEN <<yds, "yards", "and">> \o touchdownText \o <<"!">>
    ELSE IF td
        THEN touchdownText \o <<"!">>
    ELSE <<yds, "yards">>

updateTwoPointConversionState(L, td) ==
    IF td /\ L.twoPointConversionState = "attempting"
        THEN [L EXCEPT !.twoPointConversionState = "converted"]
        ELSE L

FailedText == <<"Two", "point", "conversion", "failed">>

\* previousEvent.time: a stat entry has no time field
TimeOf(event) == IF Has(event, "time") THEN event.time ELSE undefined

\* The block as the closing rule is sometimes described: a closing call whose
\* own touchdown flag is set resolves the attempt without a failure entry
LinkResolvedByClosingTouchdown(L, c) ==
    IF ~Has(c, "twoPointConversionTeam")
        THEN LET n == Len(L.playByPlay)
                 synth == /\ L.twoPointConversionState = "attempting"
                          /\ n > 0
                          /\ ~Truthy(c, "td")
                 event == [type |-> "text",
                           text |-> FailedText,
                           t |-> L.twoPointConversionTeam,
                           time |-> TimeOf(L.playByPlay[n]),
                           quarter |-> L.quarter]
             IN  [L EXCEPT
                    !.playByPlay = IF synth THEN Append(@, event) ELSE @,
                    !.scoringSummary = IF synth THEN Append(@, event) ELSE @,
                    !.twoPointConversionState = undefined,
                    !.twoPointConversionTeam = NoTeam]
    ELSE IF L.twoPointConversionState = undefined
        THEN [L EXCEPT
                !.twoPointConversionState = "attempting",
                !.twoPointConversionTeam = c.twoPointConversionTeam]
    ELSE L

\* The block with a tag of another team restarting the attempt
LinkResetByOverlappingTag(L, c) ==
    IF ~Has(c, "twoPointConversionTeam")
        THEN LET n == Len(L.playByPlay)
                 synth == L.twoPointConversionState = "attempting" /\ n > 0
                 event == [type |-> "text",
                           text |-> FailedText,
                           t |-> L.twoPointConversionTeam,
                           time |-> TimeOf(L.playByPlay[n]),
                           quarter |-> L.quarter]
             IN  [L EXCEPT
                    !.playByPlay = IF synth THEN Append(@, event) ELSE @,
                    !.scoringSummary = IF synth THEN Append(@, event) ELSE @,
                    !.twoPointConversionState = undefined,
                    !.twoPointConversionTeam = NoTeam]
    ELSE IF \/ L.twoPointConversionState = undefined
            \/ L.twoPointConversionTeam # c.twoPointConversionTeam
        THEN [L EXCEPT
                !.twoPointConversionState = "attempting",
                !.twoPointConversionTeam = c.twoPointConversionTeam]
    ELSE L

\* The block with the failure entry pushed to the scoring log alone
LinkFailureToScoringLogOnly(L, c) ==
    IF ~Has(c, "twoPointConversionTeam")
        THEN LET n == Len(L.playByPlay)
                 synth == L.twoPointConversionState = "attempting" /\ n > 0
                 event == [type |-> "text",
                           text |-> FailedText,
                           t |-> L.twoPointConversionTeam,
                           time |-> TimeOf(L.playByPlay[n]),
                           quarter |-> L.quarter]
             IN  [L EXCEPT
                    !.scoringSummary = IF synth THEN Append(@, event) ELSE @,
                    !.twoPointConversionState = undefined,
                    !.twoPointConversionTeam = NoTeam]
    ELSE IF L.twoPointConversionState = undefined
        THEN [L EXCEPT
                !.twoPointConversionState = "attempting",
                !.twoPointConversionTeam = c.twoPointConversionTeam]
    ELSE L

\* The block with an untagged call resetting the state but not the team
LinkKeepingTeam(L, c) ==
    IF ~Has(c, "twoPointConversionTeam")
        THEN LET n == Len(L.playByPlay)
                 synth == L.twoPointConversionState = "attempting" /\ n > 0
                 event == [type |-> "text",
                           text |-> FailedText,
                           t |-> L.twoPointConversionTeam,
                           time |-> TimeOf(L.playByPlay[n]),
                           quarter |-> L.quarter]
             IN  [L EXCEPT
                    !.playByPlay = IF synth THEN Append(@, event) ELSE @,
                    !.scoringSummary = IF synth THEN Append(@, event) ELSE @,
                    !.twoPointConversionState = undefined]
    ELSE IF L.twoPointConversionState = undefined
        THEN [L EXCEPT
                !.twoPointConversionState = "attempting",
                !.twoPointConversionTeam = c.twoPointConversionTeam]
    ELSE L

\* logEvent, the two point conversion block at the top
LinkTwoPointConversion(L, c) ==
    IF ~Has(c, "twoPointConversionTeam")
        THEN LET n == Len(L.playByPlay)
                 synth == L.twoPointConversionState = "attempting" /\ n > 0
                 event == [type |-> "text",
                           text |-> FailedText,
                           t |-> L.twoPointConversionTeam,
                           time |-> TimeOf(L.playByPlay[n]),
                           quarter |-> L.quarter]
             IN  [L EXCEPT
                    !.playByPlay = IF synth THEN Append(@, event) ELSE @,
                    !.scoringSummary = IF synth THEN Append(@, event) ELSE @,
                    !.twoPointConversionState = undefined,
                    !.twoPointConversionTeam = NoTeam]
    ELSE IF L.twoPointConversionState = undefined
        THEN [L EXCEPT
                !.twoPointConversionState = "attempting",
                !.twoPointConversionTeam = c.twoPointConversionTeam]
    ELSE L

SideOf(c) == IF Has(c, "t") THEN c.t ELSE NoTeam

TouchdownText(c) ==
    IF Has(c, "twoPointConversionTeam")
        THEN IF c.twoPointConversionTeam = SideOf(c)
                THEN <<"a", "two", "point", "conversion">>
                ELSE <<"two", "point", "s">>
        ELSE <<"a", "touchdown">>

ShowYdsOnTD(c) ==
    ~(Has(c, "twoPointConversionTeam") /\ c.twoPointConversionTeam = SideOf(c))

\* The fields each play type checks, in the order it checks them
Required(type) ==
    CASE type = "quarter" -> <<"quarter">>
      [] type = "overtime" -> <<>>
      [] type \in {"kickoff", "kickoffReturn", "punt", "puntReturn",
                   "fieldGoal", "sack"} -> <<"names", "yds">>
      [] type \in {"fumbleRecovery", "interception"} -> <<"names", "td", "yds">>
      [] type \in {"passComplete", "run"} -> <<"names", "td">>
      [] type \in {"injury", "extraPoint", "fumble", "dropback",
                   "passIncomplete", "handoff"} -> <<"names">>
      [] OTHER -> <<>>

\* The message of the Error the play type's branch throws, "" when it throws none
MissingField(c) ==
    LET req == Required(c.type)
        miss == {i \in 1..Len(req) : ~Has(c, req[i])}
    IN  IF miss = {} THEN ""
        ELSE "Missing " \o req[CHOOSE i \in miss : \A j \in miss : i <= j]

\* Helpers.ordinal (deion/worker/util)
Ordinal(n) ==
    CASE n % 100 \in {11, 12, 13} -> ToString(n) \o "th"
      [] n % 10 = 1 -> ToString(n) \o "st"
      [] n % 10 = 2 -> ToString(n) \o "nd"
      [] n % 10 = 3 -> ToString(n) \o "rd"
      [] OTHER -> ToString(n) \o "th"

KickTarget(c) ==
    IF Truthy(c, "touchback") THEN <<"for", "a", "touchback">>
    ELSE IF c.yds < 0 THEN <<"into", "the", "end", "zone">>
    ELSE <<"to", "the", Num(c, "yds"), "yard", "line">>

\* The text of the play; <<>> when no branch matches the type (text stays undefined)
Text(c) ==
    LET type == c.type
        td == Truthy(c, "td")
        touchdownText == TouchdownText(c)
        n0 == NameAt(c, 1)
        n1 == NameAt(c, 2)
    IN  CASE type = "injury" -> <<n0, "was", "injured", "!">>
          [] type = "quarter" -> <<"Start", "of", Ordinal(c.quarter), "quarter">>
          [] type = "overtime" -> <<"Start", "of", "overtime">>
          [] type = "kickoff" -> <<n0, "kicked", "off">> \o KickTarget(c)
          [] type = "kickoffReturn" ->
                <<n0, "returned", "the", "kickoff", Num(c, "yds"), "yards">>
                \o (IF td THEN <<"for", "a", "touchdown", "!">> ELSE <<>>)
          [] type = "punt" -> <<n0, "punted">> \o KickTarget(c)
          [] type = "puntReturn" ->
                <<n0, "returned", "the", "punt", Num(c, "yds"), "yards">>
                \o (IF td THEN <<"for", "a", "touchdown", "!">> ELSE <<>>)
          [] type = "extraPoint" ->
                <<n0, IF Truthy(c, "made") THEN "made" ELSE "missed",
                  "the", "extra", "point">>
          [] type = "fieldGoal" ->
                <<n0, IF Truthy(c, "made") THEN "made" ELSE "missed",
                  "a", Num(c, "yds"), "yard", "field", "goal">>
          [] type = "fumble" -> <<n0, "fumbled", "the", "ball", "!">>
          [] type = "fumbleRecovery" ->
                IF Truthy(c, "safety") \/ Truthy(c, "touchback")
                    THEN <<n0, "recovered", "the", "fumble", "in", "the",
                           "endzone", ",", "resulting", "in", "a">>
                         \o (IF Truthy(c, "safety") THEN <<"safety", "!">>
                                                   ELSE <<"touchback">>)
                ELSE IF Truthy(c, "lost")
                    THEN <<n0, "recovered", "the", "fumble", "for", "the",
                           "defense">>
                         \o (IF td /\ c.yds < 1
                                THEN <<"in", "the", "endzone", "for">>
                                     \o touchdownText \o <<"!">>
                                ELSE <<"and", "returned", "it", Num(c, "yds"),
                                       "yards">>
                                     \o (IF td THEN <<"for">> \o touchdownText
                                                    \o <<"!">>
                                               ELSE <<>>))
                ELSE <<n0, "recovered", "the", "fumble", "for", "the",
                       "offense">>
                     \o (IF td THEN <<"and", "carried", "it", "into", "the",
                                      "endzone", "for">>
                                    \o touchdownText \o <<"!">>
                               ELSE <<>>)
          [] type = "interception" ->
                <<n0, "intercepted", "the", "pass", "and", "returned", "it",
                  Num(c, "yds"), "yards">>
                \o (IF td THEN <<"for">> \o touchdownText \o <<"!">> ELSE <<>>)
          [] type = "sack" ->
                <<n0, "was", "sacked", "by", n1, "for", "a">>
                \o (IF Truthy(c, "safety") THEN <<"safety", "!">>
                                          ELSE <<Num(c, "yds"), "yard", "loss">>)
          [] type = "dropback" -> <<n0, "drops", "back", "to", "pass">>
          [] type = "passComplete" ->
                IF Truthy(c, "safety")
                    THEN <<n0, "completed", "a", "pass", "to", n1, "but", "he",
                           "was", "tackled", "in", "the", "endzone", "for", "a",
                           "safety", "!">>
                    ELSE <<n0, "completed", "a", "pass", "to", n1, "for">>
                         \o descriptionYdsTD(Num(c, "yds"), td, touchdownText,
                                             ShowYdsOnTD(c))
          [] type = "passIncomplete" -> <<"Incomplete", "pass", "to", n1>>
          [] type = "handoff" ->
                <<n0, "hands", "the", "ball", "off", "to", n1>>
          [] type = "run" ->
                IF Truthy(c, "safety")
                    THEN <<n0, "was", "tackled", "in", "the", "endzone", "for",
                           "a", "safety", "!">>
                    ELSE <<n0, "rushed", "for">>
                         \o descriptionYdsTD(Num(c, "yds"), td, touchdownText,
                                             ShowYdsOnTD(c))
          [] OTHER -> <<>>

\* The branches that call updateTwoPointConversionState(td)
UpdatesConversion(c) ==
    \/ c.type = "fumbleRecovery" /\ ~(Truthy(c, "safety") \/ Truthy(c, "touchback"))
    \/ c.type = "interception"
    \/ c.type \in {"passComplete", "run"} /\ ~Truthy(c, "safety")

\* The quarter label when the start of overtime leaves it alone
QuarterAfterNumberedOnly(L, c) ==
    IF c.type = "quarter" THEN "Q" \o ToString(c.quarter) ELSE L.quarter

\* The quarter label after the play type's branch
QuarterAfter(L, c) ==
    IF c.type = "quarter" THEN "Q" \o ToString(c.quarter)
    ELSE IF c.type = "overtime" THEN "OT"
    ELSE L.quarter

\* `${Math.floor(clock)}:${sec}`, sec zero-padded to two digits
FormatTime(clock) ==
    LET sec == clock % 60
    IN  ToString(clock \div 60) \o ":"
        \o (IF sec < 10 THEN "0" ELSE "") \o ToString(sec)

\* The test with the extra point asked to be made like the field goal
IsScoringWhenMade(c) ==
    \/ Truthy(c, "safety")
    \/ Truthy(c, "td")
    \/ (Truthy(c, "made") /\ c.type \in {"extraPoint", "fieldGoal"})

\* safety || td || type === "extraPoint" || (made && type === "fieldGoal")
IsScoring(c) ==
    \/ Truthy(c, "safety")
    \/ Truthy(c, "td")
    \/ c.type = "extraPoint"
    \/ (Truthy(c, "made") /\ c.type = "fieldGoal")

\* A narration log kept only by an active logger
NarrationLogOnlyWhenActive(L) == L.active

\* this.playByPlay !== undefined: the constructor sets playByPlay whatever
\* `active` is
NarrationLogExists(L) == Has(L, "playByPlay")

\* logEvent: the logger after the call, and the message of the Error it threw
logEvent(L, c) ==
    LET L1 == LinkTwoPointConversion(L, c)
        missing == MissingField(c)
        text == Text(c)
        L2 == IF UpdatesConversion(c)
                THEN updateTwoPointConversionState(L1, Truthy(c, "td"))
                ELSE [L1 EXCEPT !.quarter = QuarterAfter(L1, c)]
        event == [type |-> "text",
                  text |-> text,
                  t |-> SideOf(c),
                  time |-> FormatTime(c.clock),
                  quarter |-> L2.quarter]
    IN  IF ~NarrationLogExists(L1)
            THEN [logger |-> L1, error |-> ""]
        ELSE IF missing # ""
            THEN [logger |-> L1, error |-> missing]
        ELSE IF text = <<>>
            THEN [logger |-> L2, error |-> "No text"]
        ELSE [logger |-> [L2 EXCEPT
                            !.playByPlay = Append(@, event),
                            !.scoringSummary =
                                IF IsScoring(c) THEN Append(@, event) ELSE @],
              error |-> ""]

logStat(L, qtr, t, pid, s, amt) ==
    IF ~L.active
        THEN L
        ELSE [L EXCEPT !.playByPlay =
                Append(@, [type |-> "stat", qtr |-> L.quarter, t |-> t,
                           pid |-> pid, s |-> s, amt |-> amt])]

\* getPlayByPlay without its test of `active`
getPlayByPlayIgnoringActive(L, boxScore) ==
    {<<[type |-> "init", boxScore |-> boxScore]>> \o L.playByPlay}

\* No value when not active, else the init element followed by the log
getPlayByPlay(L, boxScore) ==
    IF ~L.active
        THEN {}
        ELSE {<<[type |-> "init", boxScore |-> boxScore]>> \o L.playByPlay}

-----------------------------------------------------------------------------
(* processEvents *)

\* event.hide: the logger's entries carry no hide field
Hidden(event) == Truthy(event, "hide")

\* The classification with the two point phrase matched in the text's own case
ScoreTypeCaseSensitive(text) ==
    IF Includes(text, <<"extra", "point">>) THEN "XP"
    ELSE IF Includes(text, <<"field", "goal">>) THEN "FG"
    ELSE IF Includes(text, <<"touchdown">>) THEN "TD"
    ELSE IF Includes(text, <<"two", "point">>) THEN "2P"
    ELSE "null"

ScoreType(text) ==
    IF Includes(text, <<"extra", "point">>) THEN "XP"
    ELSE IF Includes(text, <<"field", "goal">>) THEN "FG"
    ELSE IF Includes(text, <<"touchdown">>) THEN "TD"
    ELSE IF Includes(ToLowerCase(text), <<"two", "point">>) THEN "2P"
    ELSE "null"

\* Points with the made extra point left out of the score
PointsWithoutExtraPoint(text) ==
    LET scoreType == ScoreType(text)
    IN  CASE scoreType = "FG" -> IF Includes(text, <<"made">>) THEN 3 ELSE 0
          [] scoreType = "TD" -> 6
          [] scoreType = "2P" -> IF ~Includes(text, <<"failed">>) THEN 2 ELSE 0
          [] OTHER -> 0

Points(text) ==
    LET scoreType == ScoreType(text)
    IN  CASE scoreType = "XP" -> IF Includes(text, <<"made">>) THEN 1 ELSE 0
          [] scoreType = "FG" -> IF Includes(text, <<"made">>) THEN 3 ELSE 0
          [] scoreType = "TD" -> 6
          [] scoreType = "2P" -> IF ~Includes(text, <<"failed">>) THEN 2 ELSE 0
          [] OTHER -> 0

\* The running score with the side's element replaced by n instead of raised
AddScoreReplacing(sc, t, n) ==
    IF t \in {0, 1} THEN [sc EXCEPT ![t + 1] = n] ELSE sc

\* score[event.t] += n; an index that is not 0 or 1 leaves both elements alone
AddScore(sc, t, n) ==
    IF t \in {0, 1} THEN [sc EXCEPT ![t + 1] = @ + n] ELSE sc

\* The merged text with the merged event's text left out
ParenthesisedDroppingText(prevText, text) == prevText

\* prevEvent.text += ` (${event.text})`
Parenthesised(prevText, text) == prevText \o <<"(">> \o text \o <<")">>

\* Merges without the extra point rule
MergesTwoPointOnly(rows, event) ==
    LET n == Len(rows)
    IN  n > 0 /\ ScoreType(event.text) = "2P" /\ event.t = rows[n].t

\* Merges without the two point conversion rule
MergesExtraPointOnly(rows, event) ==
    Len(rows) > 0 /\ ScoreType(event.text) = "XP"

\* Merges with the extra point rule asking for the previous row's side too
MergesSameSideOnly(rows, event) ==
    LET scoreType == ScoreType(event.text)
        n == Len(rows)
    IN  /\ n > 0
        /\ scoreType \in {"XP", "2P"}
        /\ event.t = rows[n].t

\* Whether the event is folded into the previous row
Merges(rows, event) ==
    LET scoreType == ScoreType(event.text)
        n == Len(rows)
    IN  /\ n > 0
        /\ \/ scoreType = "XP"
           \/ scoreType = "2P" /\ event.t = rows[n].t

\* The iteration without the test of event.hide
ProcessEventShowingHidden(st, event) ==
    LET sc == AddScore(st.score, event.t, Points(event.text))
        rows == st.processedEvents
        n == Len(rows)
    IN  IF Merges(rows, event)
            THEN [score |-> sc,
                  processedEvents |->
                    [rows EXCEPT ![n] =
                        [@ EXCEPT !.score = sc,
                                  !.text = Parenthesised(@, event.text)]]]
            ELSE [score |-> sc,
                  processedEvents |->
                    Append(rows, [t |-> event.t,
                                  quarter |-> event.quarter,
                                  time |-> event.time,
                                  text |-> event.text,
                                  score |-> sc,
                                  scoreType |-> ScoreType(event.text)])]

\* One iteration of the loop over events
ProcessEvent(st, event) ==
    IF Hidden(event) THEN st
    ELSE
        LET sc == AddScore(st.score, event.t, Points(event.text))
            rows == st.processedEvents
            n == Len(rows)
        IN  IF Merges(rows, event)
                THEN [score |-> sc,
                      processedEvents |->
                        [rows EXCEPT ![n] =
                            [@ EXCEPT !.score = sc,
                                      !.text = Parenthesised(@, event.text)]]]
                ELSE [score |-> sc,
                      processedEvents |->
                        Append(rows, [t |-> event.t,
                                      quarter |-> event.quarter,
                                      time |-> event.time,
                                      text |-> event.text,
                                      score |-> sc,
                                      scoreType |-> ScoreType(event.text)])]

RECURSIVE ProcessFrom(_, _, _)
ProcessFrom(st, evs, i) ==
    IF i > Len(evs) THEN st
    ELSE ProcessFrom(ProcessEvent(st, evs[i]), evs, i + 1)

processEvents(evs) ==
    ProcessFrom([score |-> <<0, 0>>, processedEvents |-> <<>>], evs, 1).processedEvents

-----------------------------------------------------------------------------
(* ScoringSummary *)

getCount(evs) == Len(SelectSeq(evs, LAMBDA event : ~Hidden(event)))

\* getPeriodName (common): the host's name of a period, by the number of periods
getPeriodName(numPeriods) == "period-of-" \o ToString(numPeriods)

\* quarterText; parseInt is modelled for labels of one digit
quarterText(quarter, numPeriods) ==
    IF quarter = "OT" THEN "Overtime"
    ELSE IF \E n \in 0..9 : quarter = "Q" \o ToString(n)
        THEN LET n == CHOOSE n \in 0..9 : quarter = "Q" \o ToString(n)
             IN  Ordinal(n) \o " " \o getPeriodName(numPeriods)
        ELSE "???"

quarterHeader(event, numPeriods) ==
    [tag |-> "header", text |-> quarterText(event.quarter, numPeriods)]

RowElement(event) ==
    [tag |-> "row", t |-> event.t, scoreType |-> event.scoreType,
     score |-> event.score, time |-> event.time, text |-> event.text]

\* The map over the rows with a header before every row
RECURSIVE RenderFromHeadingEveryRow(_, _, _, _)
RenderFromHeadingEveryRow(rows, i, prevQuarter, numPeriods) ==
    IF i > Len(rows) THEN <<>>
    ELSE <<quarterHeader(rows[i], numPeriods), RowElement(rows[i])>>
         \o RenderFromHeadingEveryRow(rows, i + 1, rows[i].quarter, numPeriods)

\* processedEvents.map(...), flattened; prevQuarter starts as undefined
RECURSIVE RenderFrom(_, _, _, _)
RenderFrom(rows, i, prevQuarter, numPeriods) ==
    IF i > Len(rows) THEN <<>>
    ELSE (IF rows[i].quarter # prevQuarter
              THEN <<quarterHeader(rows[i], numPeriods)>>
              ELSE <<>>)
         \o <<RowElement(rows[i])>>
         \o RenderFrom(rows, i + 1, rows[i].quarter, numPeriods)

NonePlaceholder == <<[tag |-> "p", text |-> "None"]>>

\* The component's render function
ScoringSummary(props) ==
    LET rows == processEvents(props.events)
    IN  IF Len(rows) = 0 THEN NonePlaceholder
        ELSE RenderFrom(rows, 1, undefined, props.numPeriods)

\* A comparator that takes any two props for equal
PropsAlwaysEqual(prev, next) == TRUE

\* memo's comparator
PropsAreEqual(prev, next) == prev.count = next.count

DefaultNumPeriods == 4

\* The props BoxScore hands to ScoringSummary
PropsOf(box) ==
    [count |-> getCount(box.scoringSummary),
     events |-> box.scoringSummary,
     numPeriods |-> IF Has(box, "numPeriods") THEN box.numPeriods
                    ELSE DefaultNumPeriods]

-----------------------------------------------------------------------------
(* The calls the simulation loop makes *)

Names == <<"Name0", "Name1">>

Play(type, t) == [type |-> type, t |-> t, names |-> Names]

Sides == {0, 1}

Calls ==
    {[type |-> "quarter", quarter |-> 2], [type |-> "quarter"],
     [type |-> "overtime"], [type |-> "timeout"]}
    \cup {Play("kickoff", 0) @@ [yds |-> 25],
          Play("kickoff", 0) @@ [touchback |-> FALSE]}
    \cup {Play("extraPoint", t) @@ [made |-> TRUE] : t \in Sides}
    \cup {Play("extraPoint", 0) @@ [made |-> FALSE]}
    \cup {Play("fieldGoal", 1) @@ [made |-> TRUE, yds |-> 30]}
    \cup {Play("run", t) @@ [td |-> TRUE, yds |-> 2] : t \in Sides}
    \cup {Play("run", 0) @@ [td |-> FALSE, safety |-> TRUE, yds |-> 0 - 3]}
    \cup {Play("run", x) @@ [td |-> FALSE, yds |-> 2, twoPointConversionTeam |-> x] :
            x \in Sides}
    \cup {Play("run", 0) @@ [td |-> TRUE, yds |-> 2, twoPointConversionTeam |-> 0],
          Play("interception", 1)
            @@ [td |-> TRUE, yds |-> 98, twoPointConversionTeam |-> 0]}
    \cup {[type |-> "run", t |-> 0, td |-> FALSE, yds |-> 2,
           twoPointConversionTeam |-> 0]}
    \cup {[type |-> "passComplete", t |-> 0, names |-> <<"Name0">>,
           td |-> FALSE, yds |-> 8],
          Play("passComplete", 0) @@ [yds |-> 8]}

ClockAt(n) == 15 * 60 - 55 * n

IsLogEvent(call) == call.op = "logEvent"

-----------------------------------------------------------------------------
(* The simulation loop *)

InitLoggers ==
    /\ loggers = [a \in BOOLEAN |-> NewLogger(a)]
    /\ trace = <<>>
    /\ outcome = ""

InitCompressor(input) ==
    /\ events = input
    /\ pos = 0
    /\ score = <<0, 0>>
    /\ processedEvents = <<>>

\* BoxScore is mounted with the box score document of a game
InitRender(box) ==
    /\ boxScoreProp = box
    /\ prevProps = PropsOf(box)
    /\ output = ScoringSummary(PropsOf(box))

EmptyBoxScore == [scoringSummary |-> <<>>]

Init == InitLoggers /\ InitCompressor(<<>>) /\ InitRender(EmptyBoxScore)

LogEventCall ==
    /\ Len(trace) < MaxCalls
    /\ \E k \in Calls :
        LET c == k @@ [clock |-> ClockAt(Len(trace))]
        IN  /\ loggers' = [a \in BOOLEAN |-> logEvent(loggers[a], c).logger]
            /\ outcome' = logEvent(loggers[TRUE], c).error
            /\ trace' = Append(trace, [op |-> "logEvent", args |-> c])
    /\ UNCHANGED <<compressorVars, renderVars>>

LogStatCall ==
    /\ Len(trace) < MaxCalls
    /\ loggers' = [a \in BOOLEAN |-> logStat(loggers[a], 1, 0, 7, "rus", 1)]
    /\ trace' = Append(trace, [op |-> "logStat"])
    /\ UNCHANGED <<outcome, compressorVars, renderVars>>

Next == LogEventCall \/ LogStatCall

Spec == Init /\ [][Next]_vars

-----------------------------------------------------------------------------
(* processEvents on an arbitrary scoring log *)

TextPlain == <<"rushed", "for", "5", "yards">>
TextTD == <<"rushed", "for", "2", "yards", "and", "a", "touchdown", "!">>
TextXPMade == <<"made", "the", "extra", "point">>
TextXPMissed == <<"missed", "the", "extra", "point">>
TextFGMade == <<"made", "a", "30", "yard", "field", "goal">>
TextFGMissed == <<"missed", "a", "30", "yard", "field", "goal">>
Text2P == <<"rushed", "for", "a", "two", "point", "conversion", "!">>
\* A text that carries two of the phrases
TextFGReturnTD ==
    <<"returned", "the", "missed", "field", "goal", "for", "a", "touchdown", "!">>

InputTexts ==
    {TextPlain, TextTD, TextXPMade, TextXPMissed, TextFGMade, TextFGMissed,
     Text2P, FailedText}

InputEvents ==
    {[t |-> t, text |-> x, hide |-> FALSE] : t \in Sides, x \in InputTexts}
    \cup {[t |-> 0, text |-> TextFGMade, hide |-> TRUE],
          [t |-> 1, text |-> TextFGReturnTD, hide |-> FALSE]}

QuarterAt(i) == IF i <= 1 THEN "Q1" ELSE "Q" \o ToString(i)

\* Entries are stamped like the logger's: later entries carry later clocks
Stamped(seq) ==
    [i \in 1..Len(seq) |->
        seq[i] @@ [time |-> FormatTime(ClockAt(i)), quarter |-> QuarterAt(i \div 2)]]

\* Every log of up to MaxEvents entries
InitCompress ==
    /\ InitLoggers
    /\ InitRender(EmptyBoxScore)
    /\ \E n \in 0..MaxEvents :
        \E seq \in [1..n -> InputEvents] : InitCompressor(Stamped(seq))

ProcessNextEvent ==
    /\ pos < Len(events)
    /\ LET st == ProcessEvent([score |-> score, processedEvents |-> processedEvents],
                              events[pos + 1])
       IN  /\ score' = st.score
           /\ processedEvents' = st.processedEvents
    /\ pos' = pos + 1
    /\ UNCHANGED <<events, loggerVars, renderVars>>

NextCompress == ProcessNextEvent

SpecCompress == InitCompress /\ [][NextCompress]_vars

-----------------------------------------------------------------------------
(* ScoringSummary under a box score whose scoring log grows *)

MaxLog == 4

RenderQuarters == {"Q1", "Q2", "OT"}

\* The entries a live box score receives: a touchdown, an extra point and an
\* entry that is still hidden
RenderEvents ==
    {[t |-> 0, text |-> TextTD, hide |-> FALSE],
     [t |-> 1, text |-> TextXPMade, hide |-> FALSE],
     [t |-> 1, text |-> TextFGMade, hide |-> TRUE]}

InitRenderSpec == InitLoggers /\ InitCompressor(<<>>) /\ InitRender(EmptyBoxScore)

\* BoxScore is rendered again with one more entry at the end of the scoring
\* log; ScoringSummary renders unless memo's comparator takes the props for
\* equal
BoxScoreUpdate ==
    /\ Len(boxScoreProp.scoringSummary) < MaxLog
    /\ \E e \in RenderEvents, q \in RenderQuarters :
        LET n == Len(boxScoreProp.scoringSummary)
            entry == e @@ [time |-> FormatTime(ClockAt(n + 1)), quarter |-> q]
            box == [boxScoreProp EXCEPT !.scoringSummary = Append(@, entry)]
            nextProps == PropsOf(box)
        IN  /\ boxScoreProp' = box
            /\ IF PropsAreEqual(prevProps, nextProps)
                   THEN UNCHANGED <<prevProps, output>>
                   ELSE /\ prevProps' = nextProps
                        /\ output' = ScoringSummary(nextProps)
    /\ UNCHANGED <<loggerVars, compressorVars>>

NextRender == BoxScoreUpdate

SpecRender == InitRenderSpec /\ [][NextRender]_vars

-----------------------------------------------------------------------------
(* Vocabulary of the properties *)

Last(seq) == seq[Len(seq)]

\* The logEvent calls of a trace that returned normally, in order
Logged(c) == MissingField(c) = "" /\ Text(c) # <<>>

LoggedCalls(tr) ==
    LET kept == SelectSeq(tr, LAMBDA call : IsLogEvent(call) /\ Logged(call.args))
    IN  [i \in 1..Len(kept) |-> kept[i].args]

\* The point value of a play, from the flags of its call
PlayPoints(c) ==
    IF c.type = "extraPoint" THEN (IF Truthy(c, "made") THEN 1 ELSE 0)
    ELSE IF c.type = "fieldGoal" THEN (IF Truthy(c, "made") THEN 3 ELSE 0)
    ELSE IF Truthy(c, "safety") THEN 2
    ELSE IF Truthy(c, "td")
        THEN (IF Has(c, "twoPointConversionTeam") THEN 2 ELSE 6)
    ELSE 0

RECURSIVE SidePoints(_, _)
SidePoints(cs, side) ==
    IF cs = <<>> THEN 0
    ELSE (IF SideOf(Head(cs)) = side THEN PlayPoints(Head(cs)) ELSE 0)
         + SidePoints(Tail(cs), side)

\* The score the condensed rows end on
FinalScore(rows) == IF rows = <<>> THEN <<0, 0>> ELSE Last(rows).score

IsFailure(entry) == entry.type = "text" /\ entry.text = FailedText

\* C1 (as stated): the last condensed row of the scoring log carries, per side,
\* the sum of the point values of the plays logged for that side
\* (touchdown 6, extra point 1, field goal 3, two-point conversion 2, safety 2).
C1_FinalScoreIsSumOfPlays ==
    \A a \in BOOLEAN :
        LET rows == processEvents(loggers[a].scoringSummary)
        IN  rows # <<>> =>
                \A side \in Sides :
                    Last(rows).score[side + 1] = SidePoints(LoggedCalls(trace), side)

\* The same sum with a safety valued 0
PlayPointsNoSafety(c) ==
    IF Truthy(c, "safety") /\ c.type \notin {"extraPoint", "fieldGoal"}
        THEN 0 ELSE PlayPoints(c)

RECURSIVE SidePointsNoSafety(_, _)
SidePointsNoSafety(cs, side) ==
    IF cs = <<>> THEN 0
    ELSE (IF SideOf(Head(cs)) = side THEN PlayPointsNoSafety(Head(cs)) ELSE 0)
         + SidePointsNoSafety(Tail(cs), side)

ScoreIsSumOfPlaysButSafeties ==
    \A a \in BOOLEAN :
        LET rows == processEvents(loggers[a].scoringSummary)
        IN  rows # <<>> =>
                \A side \in Sides :
                    Last(rows).score[side + 1]
                        = SidePointsNoSafety(LoggedCalls(trace), side)

-----------------------------------------------------------------------------
(* Two point conversions *)

\* The step is a logEvent call; StepCall is its argument
StepIsLogEvent == Len(trace') = Len(trace) + 1 /\ IsLogEvent(Last(trace'))

StepCall == Last(trace').args

Untagged(c) == ~Has(c, "twoPointConversionTeam")

\* The entry of the last logEvent call that was narrated
PreviousLogged(L) ==
    Last(SelectSeq(L.playByPlay, LAMBDA e : e.type = "text"))

CountFailures(log) == Len(SelectSeq(log, IsFailure))

\* The failure entry the claims describe for a pending attempt of logger L
FailureEntry(L) ==
    [type |-> "text",
     text |-> FailedText,
     t |-> L.twoPointConversionTeam,
     time |-> PreviousLogged(L).time,
     quarter |-> PreviousLogged(L).quarter]

\* The step appends a failure entry to both logs of the logger
SynthesizesFailure(L, L2) ==
    LET n == Len(L.playByPlay)
        m == Len(L.scoringSummary)
    IN  /\ Len(L2.playByPlay) > n
        /\ IsFailure(L2.playByPlay[n + 1])
        /\ Len(L2.scoringSummary) > m
        /\ L2.scoringSummary[m + 1] = L2.playByPlay[n + 1]

NoNewFailure(L, L2) ==
    /\ CountFailures(L2.playByPlay) = CountFailures(L.playByPlay)
    /\ CountFailures(L2.scoringSummary) = CountFailures(L.scoringSummary)

\* C2 (as stated), for a call that returns and follows one that returned: an
\* untagged call that finds an attempt by X pending appends to both logs exactly
\* one failure entry for X stamped with the clock and quarter of the previously
\* logged event, worth no points; a tagged call with the touchdown flag set is
\* worth +2 and leaves no failure entry to be appended.
C2_FailureEntryStampedLikePreviousEvent ==
    [][\A a \in BOOLEAN :
        LET L == loggers[a]
            L2 == loggers'[a]
            n == Len(L.playByPlay)
            m == Len(L.scoringSummary)
            c == StepCall
        IN  StepIsLogEvent /\ outcome = "" /\ outcome' = "" =>
            /\ (Untagged(c) /\ L.twoPointConversionState = "attempting") =>
                /\ SynthesizesFailure(L, L2)
                /\ L2.playByPlay[n + 1] = FailureEntry(L)
                /\ CountFailures(L2.playByPlay) = CountFailures(L.playByPlay) + 1
                /\ CountFailures(L2.scoringSummary)
                    = CountFailures(L.scoringSummary) + 1
                /\ FinalScore(processEvents(SubSeq(L2.scoringSummary, 1, m + 1)))
                    = FinalScore(processEvents(L.scoringSummary))
            /\ (Untagged(c) /\ L.twoPointConversionState = "converted") =>
                NoNewFailure(L, L2)
            /\ (/\ ~Untagged(c)
                /\ Truthy(c, "td")
                /\ c.twoPointConversionTeam = L2.twoPointConversionTeam) =>
                /\ L2.twoPointConversionState = "converted"
                /\ NoNewFailure(L, L2)
                /\ FinalScore(processEvents(L2.scoringSummary))
                    = AddScore(FinalScore(processEvents(L.scoringSummary)),
                               SideOf(c), 2)
      ]_vars

\* The same with the stamp read as the code reads it: the time field of the
\* last entry of the narration log, which a stat entry does not have
FailureEntryAsCoded(L) ==
    [FailureEntry(L) EXCEPT !.time = TimeOf(Last(L.playByPlay)),
                            !.quarter = L.quarter]

FailureEntryStampedLikeLastEntry ==
    [][\A a \in BOOLEAN :
        LET L == loggers[a]
            L2 == loggers'[a]
            n == Len(L.playByPlay)
            c == StepCall
        IN  (/\ StepIsLogEvent
             /\ outcome = ""
             /\ Untagged(c)
             /\ L.twoPointConversionState = "attempting") =>
                /\ SynthesizesFailure(L, L2)
                /\ L2.playByPlay[n + 1] = FailureEntryAsCoded(L)
                /\ L.quarter = PreviousLogged(L).quarter
      ]_vars

-----------------------------------------------------------------------------
(* Condensed rows *)

\* What processEvents holds after the first k events of its argument
AfterPrefix(k) ==
    ProcessFrom([score |-> <<0, 0>>, processedEvents |-> <<>>],
                SubSeq(events, 1, k), 1)

\* The loop has just consumed a touchdown and then an event with one of the
\* given texts, both shown and both of the same side
JustProcessedPair(texts) ==
    /\ pos >= 2
    /\ ~events[pos - 1].hide
    /\ events[pos - 1].text = TextTD
    /\ ~events[pos].hide
    /\ events[pos].text \in texts
    /\ events[pos].t = events[pos - 1].t

\* The pair made one row, worth `points` to its side and nothing to the other
PairIsOneRow(points) ==
    LET before == AfterPrefix(pos - 2)
        row == Last(processedEvents)
    IN  /\ Len(processedEvents) = Len(before.processedEvents) + 1
        /\ row.t = events[pos].t
        /\ row.score = AddScore(before.score, events[pos].t, points)
        /\ score = row.score

\* C3: a touchdown immediately followed by a made extra point of the same side
\* gives exactly one row, 7 up for that side and unchanged for the other, whose
\* text contains the touchdown text and the extra point text.
C3_TouchdownAndExtraPointIsOneRowOfSeven ==
    JustProcessedPair({TextXPMade}) =>
        /\ PairIsOneRow(7)
        /\ Includes(Last(processedEvents).text, events[pos - 1].text)
        /\ Includes(Last(processedEvents).text, events[pos].text)

C3_Witness ==
    /\ JustProcessedPair({TextXPMade})
    /\ AfterPrefix(pos - 2).score # <<0, 0>>
    /\ Len(processedEvents) >= 2

\* C4: a touchdown followed by a missed extra point or a failed two point
\* conversion of the same side gives exactly one row, exactly 6 up for that side.
C4_TouchdownAndFailedTryIsOneRowOfSix ==
    JustProcessedPair({TextXPMissed, FailedText}) => PairIsOneRow(6)

C4_Witness ==
    /\ JustProcessedPair({FailedText})
    /\ AfterPrefix(pos - 2).score # <<0, 0>>
    /\ Len(processedEvents) >= 2

C4_WitnessMissedKick ==
    /\ JustProcessedPair({TextXPMissed})
    /\ Len(processedEvents) >= 2

\* The row a merge leaves in place of the previous row
MergedRow(prev, event, running) ==
    [prev EXCEPT !.text = prev.text \o <<"(">> \o event.text \o <<")">>,
                 !.score = running]

\* C10: a shown event is merged into the previous row when that row exists and
\* the event is an extra point (whatever its side) or a two point conversion of
\* the row's side; otherwise exactly one row is appended with the event's side,
\* quarter, time and text and the running score.
C10_MergeOrAppend ==
    [][pos' = pos + 1 /\ ~events[pos + 1].hide =>
        LET event == events[pos + 1]
            n == Len(processedEvents)
            isXP == event.text \in {TextXPMade, TextXPMissed}
            is2P == event.text \in {Text2P, FailedText}
            merge == n > 0 /\ (isXP \/ (is2P /\ event.t = processedEvents[n].t))
        IN  IF merge
                THEN processedEvents' =
                        [processedEvents EXCEPT
                            ![n] = MergedRow(processedEvents[n], event, score')]
                ELSE /\ Len(processedEvents') = n + 1
                     /\ SubSeq(processedEvents', 1, n) = processedEvents
                     /\ LET row == processedEvents'[n + 1]
                        IN  /\ row.t = event.t
                            /\ row.quarter = event.quarter
                            /\ row.time = event.time
                            /\ row.text = event.text
                            /\ row.score = score'
      ]_vars

\* Each of the three cases happened: a touchdown appended as a row, an extra
\* point of the other side merged into it, a conversion of its side merged too
C10_Witness ==
    /\ pos = 3
    /\ events[1].text = TextTD /\ events[1].t = 0
    /\ events[2].text = TextXPMade /\ events[2].t = 1
    /\ events[3].text = Text2P /\ events[3].t = 0
    /\ \A i \in 1..3 : ~events[i].hide
    /\ Len(processedEvents) = 1
    /\ processedEvents[1].score = <<8, 1>>

\* A conversion of the other side than the previous row's is a row of its own
C10_WitnessOtherSide ==
    /\ pos = 2
    /\ events[1].text = TextTD /\ events[1].t = 0 /\ ~events[1].hide
    /\ events[2].text = Text2P /\ events[2].t = 1 /\ ~events[2].hide
    /\ Len(processedEvents) = 2

-----------------------------------------------------------------------------
(* Narration and the active flag *)

\* Every logEvent call made so far returned normally
AllReturned(tr) ==
    \A i \in 1..Len(tr) : IsLogEvent(tr[i]) => Logged(tr[i].args)

\* C5 (as stated), for calls that all returned normally: the scoring log does
\* not depend on whether narration is active: the two loggers, given the same
\* calls, hold the same scoring log, entry for entry.
C5_ScoringLogIndependentOfNarration ==
    AllReturned(trace) =>
        loggers[TRUE].scoringSummary = loggers[FALSE].scoringSummary

\* C6 (as stated): with narration inactive the narration log stays empty.
C6_InactiveNarrationLogStaysEmpty == loggers[FALSE].playByPlay = <<>>

\* The clocks, as stamped, of the entries the plays themselves left in a log
PlayStamps(log) ==
    LET own == SelectSeq(log, LAMBDA e : e.type = "text" /\ ~IsFailure(e))
    IN  [i \in 1..Len(own) |-> own[i].time]

CallStamps(tr) ==
    LET cs == LoggedCalls(tr)
    IN  [i \in 1..Len(cs) |-> FormatTime(cs[i].clock)]

\* C6 (amended): logEvent appends to the narration log whether or not narration
\* is active: the narration log of the inactive logger holds, in call order, one
\* text entry for every logEvent call that returned; only stat entries are left
\* out of it.
C6_InactiveNarrationLogHoldsEveryPlay ==
    /\ PlayStamps(loggers[FALSE].playByPlay) = CallStamps(trace)
    /\ \A i \in 1..Len(loggers[FALSE].playByPlay) :
            loggers[FALSE].playByPlay[i].type = "text"

C6_Witness ==
    /\ Len(LoggedCalls(trace)) >= 2
    /\ \E i \in 1..Len(trace) : ~IsLogEvent(trace[i])
    /\ Len(loggers[FALSE].playByPlay) >= 2
    /\ Len(loggers[TRUE].playByPlay) > Len(loggers[FALSE].playByPlay)

BoxScores == {"boxScore1", "boxScore2"}

\* The calls that left an entry of their own in an active narration log, as the
\* stamp of the entry ("stat" for a logStat call)
NarratedStamps(tr) ==
    LET kept == SelectSeq(tr, LAMBDA call :
                    ~IsLogEvent(call) \/ Logged(call.args))
    IN  [i \in 1..Len(kept) |->
            IF IsLogEvent(kept[i]) THEN FormatTime(kept[i].args.clock)
                                   ELSE "stat"]

EntryStamps(log) ==
    LET own == SelectSeq(log, LAMBDA e : e.type = "stat" \/ ~IsFailure(e))
    IN  [i \in 1..Len(own) |->
            IF own[i].type = "stat" THEN "stat" ELSE own[i].time]

\* C7: getPlayByPlay returns no value on the inactive logger; on the active one
\* it returns the init element carrying the box score, then every narrated
\* event in the order logged, and no second init element.
C7_GetPlayByPlay ==
    \A box \in BoxScores :
        /\ getPlayByPlay(loggers[FALSE], box) = {}
        /\ \E result \in getPlayByPlay(loggers[TRUE], box) :
            /\ getPlayByPlay(loggers[TRUE], box) = {result}
            /\ Len(result) >= 1
            /\ result[1] = [type |-> "init", boxScore |-> box]
            /\ \A i \in 2..Len(result) : result[i].type \in {"text", "stat"}
            /\ Tail(result) = loggers[TRUE].playByPlay
            /\ EntryStamps(Tail(result)) = NarratedStamps(trace)

C7_Witness ==
    /\ Len(loggers[FALSE].playByPlay) >= 2
    /\ \E i \in 1..Len(loggers[TRUE].playByPlay) :
            loggers[TRUE].playByPlay[i].type = "stat"
    /\ \E i \in 1..Len(loggers[TRUE].playByPlay) :
            loggers[TRUE].playByPlay[i].type = "text"

-----------------------------------------------------------------------------
(* Closing and overlapping attempts *)

\* C8 (as stated): when an untagged call closes a pending attempt, a failure
\* entry is synthesized only when the call's own touchdown flag is not set.
C8_ClosingTouchdownSuppressesFailure ==
    [][\A a \in BOOLEAN :
        LET L == loggers[a]
            L2 == loggers'[a]
        IN  (/\ StepIsLogEvent
             /\ Untagged(StepCall)
             /\ L.twoPointConversionState = "attempting"
             /\ Truthy(StepCall, "td")) =>
                NoNewFailure(L, L2)
      ]_vars

\* C8 (amended): when an untagged call closes a pending attempt, the outcome
\* does not depend on the call's own touchdown flag: the failure entry is
\* synthesized exactly when the state is still "attempting" and the narration
\* log is not empty, and the state is idle afterwards.
C8_ClosingCallAlwaysSynthesizesFailure ==
    [][\A a \in BOOLEAN :
        LET L == loggers[a]
            L2 == loggers'[a]
        IN  StepIsLogEvent /\ Untagged(StepCall) =>
            /\ L2.twoPointConversionState = undefined
            /\ L2.twoPointConversionTeam = NoTeam
            /\ IF L.twoPointConversionState = "attempting" /\ L.playByPlay # <<>>
                THEN /\ SynthesizesFailure(L, L2)
                     /\ CountFailures(L2.playByPlay)
                            = CountFailures(L.playByPlay) + 1
                     /\ CountFailures(L2.scoringSummary)
                            = CountFailures(L.scoringSummary) + 1
                ELSE NoNewFailure(L, L2)
      ]_vars

\* An untagged touchdown closed an attempt and the failure entry is in both logs
C8_Witness ==
    /\ Len(trace) >= 2
    /\ IsLogEvent(Last(trace))
    /\ Untagged(Last(trace).args)
    /\ Truthy(Last(trace).args, "td")
    /\ outcome = ""
    /\ \A a \in BOOLEAN :
        LET log == loggers[a].playByPlay
            sum == loggers[a].scoringSummary
        IN  /\ Len(log) >= 3
            /\ IsFailure(log[Len(log) - 1])
            /\ Len(sum) >= 2
            /\ IsFailure(sum[Len(sum) - 1])
            /\ Last(sum) = Last(log)

\* C9 (as stated): a call tagged with team Y that arrives while an attempt of
\* another team X is pending resets the state to an attempt of Y.
C9_OverlappingTagResetsAttempt ==
    [][\A a \in BOOLEAN :
        LET L == loggers[a]
            L2 == loggers'[a]
        IN  (/\ StepIsLogEvent
             /\ ~Untagged(StepCall)
             /\ L.twoPointConversionState = "attempting"
             /\ L.twoPointConversionTeam # StepCall.twoPointConversionTeam) =>
                L2.twoPointConversionTeam = StepCall.twoPointConversionTeam
      ]_vars

\* C9 (amended): a tagged call that arrives while an attempt is pending leaves
\* the recorded team alone, whatever its tag: the state stays with team X, and
\* a failure entry synthesized later is attributed to X, not to Y.
C9_OverlappingTagKeepsFirstTeam ==
    [][\A a \in BOOLEAN :
        LET L == loggers[a]
            L2 == loggers'[a]
            n == Len(L.playByPlay)
        IN  StepIsLogEvent =>
            /\ (~Untagged(StepCall) /\ L.twoPointConversionState # undefined) =>
                /\ L2.twoPointConversionTeam = L.twoPointConversionTeam
                /\ L2.twoPointConversionState
                    \in {L.twoPointConversionState, "converted"}
            /\ (/\ Untagged(StepCall)
                /\ L.twoPointConversionState = "attempting"
                /\ n > 0) =>
                /\ Len(L2.playByPlay) > n
                /\ IsFailure(L2.playByPlay[n + 1])
                /\ L2.playByPlay[n + 1].t = L.twoPointConversionTeam
      ]_vars

\* Tagged for team 0, then tagged for team 1, then closed: the failure entry is
\* team 0's
C9_Witness ==
    /\ Len(trace) = 3
    /\ \A i \in 1..3 : IsLogEvent(trace[i])
    /\ ~Untagged(trace[1].args) /\ trace[1].args.twoPointConversionTeam = 0
    /\ ~Untagged(trace[2].args) /\ trace[2].args.twoPointConversionTeam = 1
    /\ Logged(trace[2].args)
    /\ Untagged(trace[3].args)
    /\ \A a \in BOOLEAN :
        \E i \in 1..Len(loggers[a].scoringSummary) :
            /\ IsFailure(loggers[a].scoringSummary[i])
            /\ loggers[a].scoringSummary[i].t = 0

-----------------------------------------------------------------------------
(* C11: the score effect of one event *)

\* The loop consumes a shown event in this step
ConsumesShown == pos' = pos + 1 /\ ~events[pos + 1].hide

\* What the step adds to a side's running score
Gain(side) == score'[side + 1] - score[side + 1]

\* The row the step appended, if it appended one
AppendedRows ==
    IF Len(processedEvents') = Len(processedEvents) + 1
        THEN {Last(processedEvents')}
        ELSE {}

\* Each phrase rule read on its own: whatever else the text says, the phrase
\* decides the points of the event's side.
C11_EachPhraseScoresItsPoints ==
    [][ConsumesShown =>
        LET event == events[pos + 1]
            text == event.text
            xp == Includes(text, <<"extra", "point">>)
            fg == Includes(text, <<"field", "goal">>)
            td == Includes(text, <<"touchdown">>)
            twoPoint == Includes(ToLowerCase(text), <<"two", "point">>)
            made == Includes(text, <<"made">>)
            failed == Includes(text, <<"failed">>)
        IN  /\ xp /\ made => Gain(event.t) = 1
            /\ fg /\ made => Gain(event.t) = 3
            /\ td => Gain(event.t) = 6
            /\ twoPoint /\ ~failed => Gain(event.t) = 2
            /\ twoPoint /\ failed => Gain(event.t) = 0
            /\ ~(xp \/ fg \/ td \/ twoPoint) =>
                    /\ Gain(event.t) = 0
                    /\ \A row \in AppendedRows : row.scoreType = "null"
            /\ Gain(1 - event.t) = 0]_vars

\* The points of a text when the first phrase found, in the order extra point,
\* field goal, touchdown, two point, decides
FirstPhrasePoints(text) ==
    IF Includes(text, <<"extra", "point">>)
        THEN (IF Includes(text, <<"made">>) THEN 1 ELSE 0)
    ELSE IF Includes(text, <<"field", "goal">>)
        THEN (IF Includes(text, <<"made">>) THEN 3 ELSE 0)
    ELSE IF Includes(text, <<"touchdown">>) THEN 6
    ELSE IF Includes(ToLowerCase(text), <<"two", "point">>)
        THEN (IF Includes(text, <<"failed">>) THEN 0 ELSE 2)
    ELSE 0

FirstPhraseType(text) ==
    IF Includes(text, <<"extra", "point">>) THEN "XP"
    ELSE IF Includes(text, <<"field", "goal">>) THEN "FG"
    ELSE IF Includes(text, <<"touchdown">>) THEN "TD"
    ELSE IF Includes(ToLowerCase(text), <<"two", "point">>) THEN "2P"
    ELSE "null"

\* C11: a shown event changes only its own side's score, by the points of the
\* first phrase its text carries in the order extra point (1 if made), field
\* goal (3 if made), touchdown (6), two point in any case (2 unless failed);
\* a text with none of them adds 0 and a row appended for the event carries
\* the type of that first phrase, null when there is none.
C11_FirstPhraseScoresItsPoints ==
    [][ConsumesShown =>
        LET event == events[pos + 1]
        IN  /\ Gain(event.t) = FirstPhrasePoints(event.text)
            /\ Gain(1 - event.t) = 0
            /\ \A row \in AppendedRows :
                    row.scoreType = FirstPhraseType(event.text)]_vars

\* Every kind of text has been consumed as the first event of a log: the
\* failed conversion and the plain play have made rows of their own
C11_Witness ==
    /\ Len(processedEvents) = 3
    /\ processedEvents[1].text = FailedText
    /\ processedEvents[1].scoreType = "2P"
    /\ processedEvents[2].text = TextPlain
    /\ processedEvents[2].scoreType = "null"
    /\ processedEvents[3].text = TextFGReturnTD
    /\ processedEvents[3].score = <<0, 0>>

-----------------------------------------------------------------------------
(* C12, C13: the rows as a sequence *)

\* C12: along the rows built so far, and so along the rows returned, neither
\* side's score snapshot ever decreases from one row to the next.
C12_SnapshotsNonDecreasing ==
    \A i \in 1..(Len(processedEvents) - 1) :
        \A s \in 1..2 :
            processedEvents[i + 1].score[s] >= processedEvents[i].score[s]

\* Three rows whose snapshots rise on one side and then on the other
C12_Witness ==
    /\ pos = Len(events)
    /\ Len(processedEvents) = 3
    /\ processedEvents[1].score = <<6, 0>>
    /\ processedEvents[2].score = <<6, 3>>
    /\ processedEvents[3].score = <<12, 3>>

\* No row has score type XP, and no row of type 2P directly follows a row of
\* the same side.
C13_NoExtraPointRowAtAll ==
    /\ \A i \in 1..Len(processedEvents) : processedEvents[i].scoreType # "XP"
    /\ \A i \in 2..Len(processedEvents) :
        processedEvents[i].scoreType = "2P" =>
            processedEvents[i].t # processedEvents[i - 1].t

\* C13: no row after the first has score type XP, and no row of type 2P
\* directly follows a row of the same side; an extra point that is the first
\* shown event has no row to be merged into and makes the first row.
C13_NoExtraPointRowAfterFirst ==
    /\ \A i \in 2..Len(processedEvents) :
        /\ processedEvents[i].scoreType # "XP"
        /\ processedEvents[i].scoreType = "2P" =>
                processedEvents[i].t # processedEvents[i - 1].t
    /\ Len(processedEvents) > 0 /\ processedEvents[1].scoreType = "XP" =>
            \E j \in 1..pos :
                /\ ~events[j].hide
                /\ events[j].text \in {TextXPMade, TextXPMissed}
                /\ \A k \in 1..(j - 1) : events[k].hide

\* A log of a touchdown, an extra point of the other side and a two point
\* conversion of the touchdown's side has been consumed into one row
C13_Witness ==
    /\ pos = 3
    /\ \A i \in 1..3 : ~events[i].hide
    /\ events[1].text = TextTD
    /\ events[2].text = TextXPMissed
    /\ events[2].t # events[1].t
    /\ events[3].text = Text2P
    /\ events[3].t = events[1].t
    /\ Len(processedEvents) = 1

-----------------------------------------------------------------------------
(* C14: the log of a rush, a touchdown and a made extra point, all of side 0 *)

RushTouchdownExtraPoint ==
    /\ Len(events) = 3
    /\ pos = 3
    /\ \A i \in 1..3 : ~events[i].hide /\ events[i].t = 0
    /\ events[1].text = TextPlain
    /\ events[2].text = TextTD
    /\ events[3].text = TextXPMade

\* The row of side 0 with score [7,0] that joins the touchdown and the extra
\* point
IsTouchdownWithExtraPoint(row) ==
    /\ row.t = 0
    /\ row.score = <<7, 0>>
    /\ row.text = TextTD \o <<"(">> \o TextXPMade \o <<")">>

\* The three events come back as exactly one row.
C14_ThreeEventsAreOneRow ==
    RushTouchdownExtraPoint =>
        /\ Len(processedEvents) = 1
        /\ IsTouchdownWithExtraPoint(processedEvents[1])

\* C14: the three events come back as exactly two rows: the rush as a row of
\* its own with score [0,0] and a null score type, then one row of side 0 with
\* score [7,0] whose text joins the touchdown text and the extra point text.
C14_ThreeEventsAreTwoRows ==
    RushTouchdownExtraPoint =>
        /\ Len(processedEvents) = 2
        /\ processedEvents[1].t = 0
        /\ processedEvents[1].text = TextPlain
        /\ processedEvents[1].score = <<0, 0>>
        /\ processedEvents[1].scoreType = "null"
        /\ IsTouchdownWithExtraPoint(processedEvents[2])
        /\ processedEvents[2].scoreType = "TD"
        /\ processedEvents[2].time = events[2].time

C14_Witness == RushTouchdownExtraPoint /\ Len(processedEvents) = 2

-----------------------------------------------------------------------------
(* C15: quarter headers *)

\* The rows ScoringSummary mapped over in its last render
RenderedRows == processEvents(prevProps.events)

\* The rows that start a group: the first one and every one whose quarter
\* label differs from the row before it
GroupStarts(rows) ==
    {i \in 1..Len(rows) : i = 1 \/ rows[i].quarter # rows[i - 1].quarter}

DifferingPairs(rows) ==
    {i \in 1..(Len(rows) - 1) : rows[i].quarter # rows[i + 1].quarter}

\* Where row i stands in the rendered sequence: after the rows before it and
\* after every header up to its own
PlaceOf(rows, i) == i + Cardinality({j \in GroupStarts(rows) : j <= i})

Headers(out) == {k \in 1..Len(out) : out[k].tag = "header"}

\* C15: a render of rows emits every row in order and a quarter header
\* directly before a row exactly when the row is the first one or its quarter
\* label differs from the previous row's, so there are 1 plus the number of
\* adjacent pairs with different labels headers; rows labelled Q1, Q1, Q2, OT
\* get 3 headers, before the first, the third and the fourth row, and the
\* header of an OT row reads "Overtime".
C15_HeaderWhereQuarterChanges ==
    LET rows == RenderedRows
        starts == GroupStarts(rows)
        place == [i \in 1..Len(rows) |-> PlaceOf(rows, i)]
    IN  Len(rows) > 0 =>
            /\ Len(output) = Len(rows) + Cardinality(starts)
            /\ \A i \in 1..Len(rows) :
                /\ output[place[i]].tag = "row"
                /\ output[place[i]].text = rows[i].text
                /\ i \in starts =>
                        /\ output[place[i] - 1].tag = "header"
                        /\ rows[i].quarter = "OT" <=>
                                output[place[i] - 1].text = "Overtime"
                /\ i \notin starts => output[place[i] - 1].tag = "row"
            /\ Cardinality(Headers(output)) = 1 + Cardinality(DifferingPairs(rows))
            /\ [i \in 1..Len(rows) |-> rows[i].quarter] = <<"Q1", "Q1", "Q2", "OT">> =>
                    Headers(output) = {1, 4, 6}

\* Four rows labelled Q1, Q1, Q2, OT are on display under three headers
C15_Witness ==
    /\ Len(boxScoreProp.scoringSummary) = 4
    /\ [i \in 1..4 |-> boxScoreProp.scoringSummary[i].quarter] = <<"Q1", "Q1", "Q2", "OT">>
    /\ Len(processEvents(boxScoreProp.scoringSummary)) = 4
    /\ Len(output) = 7
    /\ Headers(output) = {1, 4, 6}
    /\ output[6].text = "Overtime"
    /\ output[1].text = "1st " \o getPeriodName(DefaultNumPeriods)

-----------------------------------------------------------------------------
(* C17: hidden events *)

\* The events consumed so far with the hidden ones removed
ShownConsumed == SelectSeq(SubSeq(events, 1, pos), LAMBDA event : ~event.hide)

\* C17: the rows built from the events consumed so far are the rows
\* processEvents returns for the same events with the hidden ones removed;
\* when none of them is shown there are no rows, and ScoringSummary renders
\* such a log as the "None" placeholder.
C17_HiddenEventsAreSkipped ==
    /\ processedEvents = processEvents(ShownConsumed)
    /\ ShownConsumed = <<>> =>
            /\ processedEvents = <<>>
            /\ processEvents(SubSeq(events, 1, pos)) = <<>>
            /\ ScoringSummary(PropsOf([scoringSummary |-> SubSeq(events, 1, pos)]))
                    = NonePlaceholder

\* A hidden field goal between a touchdown and its extra point has been
\* passed over: the pair is one row of seven points
C17_Witness ==
    /\ pos = 3
    /\ events[1].text = TextTD /\ ~events[1].hide /\ events[1].t = 0
    /\ events[2].hide
    /\ events[3].text = TextXPMade /\ ~events[3].hide
    /\ Len(processedEvents) = 1
    /\ processedEvents[1].score = <<7, 0>>

\* A log of hidden events only has been consumed
C17_WitnessAllHidden ==
    /\ pos = 3
    /\ \A i \in 1..3 : events[i].hide
    /\ processedEvents = <<>>

-----------------------------------------------------------------------------
(* C20: memo on the count of shown events *)

\* The scoring log BoxScore holds now
CurrentLog == boxScoreProp.scoringSummary

\* The index of the last shown entry of a log, 0 when there is none
LastShown(log) ==
    IF \E i \in 1..Len(log) : ~log[i].hide
        THEN CHOOSE i \in 1..Len(log) :
                ~log[i].hide /\ \A j \in (i + 1)..Len(log) : log[j].hide
        ELSE 0

\* C20: while the scoring log only grows at its end, ScoringSummary has last
\* rendered when the count of shown entries last changed, that is at the last
\* shown entry (or when it was mounted), the count of its props is the count
\* of the current log, and what it shows is what a render of the current log
\* would show: the rows of processEvents on the current log.
C20_ShownRowsAreCurrent ==
    /\ prevProps.events = SubSeq(CurrentLog, 1, LastShown(CurrentLog))
    /\ prevProps.count = getCount(CurrentLog)
    /\ processEvents(prevProps.events) = processEvents(CurrentLog)
    /\ output = ScoringSummary(PropsOf(boxScoreProp))

\* A hidden entry has arrived after a touchdown and its extra point: the
\* component has not rendered again and still shows the one row
C20_Witness ==
    /\ Len(CurrentLog) = 3
    /\ CurrentLog[1].text = TextTD /\ CurrentLog[2].text = TextXPMade
    /\ CurrentLog[3].hide
    /\ Len(prevProps.events) = 2
    /\ prevProps.count = 2
    /\ Len(output) = 2
    /\ output[2].score = <<6, 1>>

-----------------------------------------------------------------------------
(* C16: calls that lack a field *)

PlayTypes ==
    {"quarter", "overtime", "kickoff", "kickoffReturn", "punt", "puntReturn",
     "extraPoint", "fieldGoal", "fumble", "fumbleRecovery", "interception",
     "sack", "dropback", "passComplete", "passIncomplete", "handoff", "run",
     "injury"}

\* The call lacks a field its play type requires: the quarter number of a
\* quarter start, the yardage or the touchback flag of a kickoff, one of the
\* two names or the touchdown flag of a completed pass, the names of any play
LacksRequiredField(c) ==
    \/ c.type = "quarter" /\ ~Has(c, "quarter")
    \/ c.type = "kickoff" /\ (~Has(c, "yds") \/ ~Has(c, "touchback"))
    \/ c.type = "passComplete" /\ ~Has(c, "td")
    \/ c.type = "passComplete" /\ Has(c, "names") /\ Len(c.names) < 2
    \/ c.type \in PlayTypes \ {"quarter", "overtime"} /\ ~Has(c, "names")

\* C16: a logEvent call that lacks a required field, or whose play type no
\* phrasing rule matches, fails with an error.
C16_MissingFieldFails ==
    [][StepIsLogEvent =>
        LET c == StepCall
        IN  LacksRequiredField(c) \/ c.type \notin PlayTypes => outcome' # ""]_vars

\* What the code does check: the quarter number, the names as a whole, the
\* yardage of a kickoff, the touchdown flag of a completed pass or a run, and
\* the play type
FailsWhereTheCodeChecks ==
    [][StepIsLogEvent =>
        LET c == StepCall
        IN  /\ c.type = "quarter" /\ ~Has(c, "quarter") => outcome' = "Missing quarter"
            /\ c.type \in PlayTypes \ {"quarter", "overtime"} /\ ~Has(c, "names")
                    => outcome' = "Missing names"
            /\ c.type = "kickoff" /\ Has(c, "names") /\ ~Has(c, "yds")
                    => outcome' = "Missing yds"
            /\ c.type \in {"passComplete", "run"} /\ Has(c, "names") /\ ~Has(c, "td")
                    => outcome' = "Missing td"
            /\ c.type \notin PlayTypes => outcome' = "No text"
            /\ c.type = "kickoff" /\ Has(c, "names") /\ Has(c, "yds") => outcome' = ""
            /\ c.type = "passComplete" /\ Has(c, "names") /\ Has(c, "td")
                    => outcome' = ""]_vars

-----------------------------------------------------------------------------
(* C18: what a play's own call appends to the scoring log *)

\* The entries the step appended to a log
Appended(log, log2) == SubSeq(log2, Len(log) + 1, Len(log2))

\* The entries the step's call appended to the scoring log for its own play,
\* the failure entry of an earlier attempt left aside
OwnScoringEntries(L, L2) ==
    SelectSeq(Appended(L.scoringSummary, L2.scoringSummary),
              LAMBDA e : ~IsFailure(e))

\* A play's own call appends it to the scoring log only if the play changed
\* the score.
C18_OnlyScoreChangingPlays ==
    [][StepIsLogEvent =>
        \A a \in BOOLEAN :
            OwnScoringEntries(loggers[a], loggers'[a]) # <<>>
                => PlayPoints(StepCall) > 0]_vars

\* C18: a play's own call appends exactly one entry for it to the scoring log
\* when the call returns and the play is a touchdown, a safety, a made field
\* goal, a converted two point attempt or an extra point attempt, made or
\* missed; no other play is appended by its own call.
C18_ScoringPlaysAndEveryExtraPoint ==
    [][StepIsLogEvent =>
        \A a \in BOOLEAN :
            LET c == StepCall
                own == OwnScoringEntries(loggers[a], loggers'[a])
                listed == \/ PlayPoints(c) > 0
                          \/ c.type = "extraPoint"
            IN  IF outcome' = "" /\ listed
                    THEN /\ Len(own) = 1
                         /\ own[1].text = Text(c)
                         /\ own[1] = Last(loggers'[a].playByPlay)
                    ELSE own = <<>>]_vars

\* A missed extra point stands in the scoring log behind its touchdown
C18_Witness ==
    \E a \in BOOLEAN :
        LET log == loggers[a].scoringSummary
        IN  /\ Len(log) = 2
            /\ Includes(log[1].text, <<"touchdown">>)
            /\ Includes(log[2].text, <<"missed", "the", "extra", "point">>)
            /\ outcome = ""

-----------------------------------------------------------------------------
(* C19: the quarter label *)

\* The label a call sets when it returns: that of a quarter start with its
\* number or of an overtime start, none for any other call
LabelSetBy(call) ==
    IF ~IsLogEvent(call) THEN {}
    ELSE IF call.args.type = "quarter" /\ Has(call.args, "quarter")
        THEN {"Q" \o ToString(call.args.quarter)}
    ELSE IF call.args.type = "overtime" THEN {"OT"}
    ELSE {}

\* The label set by the most recent quarter or overtime start of a trace,
\* "Q1" when there is none
RECURSIVE CurrentLabel(_)
CurrentLabel(tr) ==
    IF tr = <<>> THEN "Q1"
    ELSE IF LabelSetBy(Last(tr)) # {}
        THEN CHOOSE label \in LabelSetBy(Last(tr)) : TRUE
    ELSE CurrentLabel(SubSeq(tr, 1, Len(tr) - 1))

\* The label an entry carries: `quarter` on a narrated event, `qtr` on a stat
LabelOf(e) == IF e.type = "stat" THEN e.qtr ELSE e.quarter

\* C19: a logger's quarter label starts as "Q1" and is changed by no call but
\* a quarter start that carries its number, which sets "Q{n}", and an
\* overtime start, which sets "OT"; every entry a call appends to either log
\* for its own play or stat carries the label of the most recent such call,
\* the call itself included, and the failure entry a call appends for an
\* earlier attempt carries the label as it stood when the call began.
C19_LabelSetByQuarterAndOvertimeOnly ==
    [][Len(trace') = Len(trace) + 1 =>
        \A a \in BOOLEAN :
            LET L == loggers[a]
                L2 == loggers'[a]
                new == Appended(L.playByPlay, L2.playByPlay)
                      \o Appended(L.scoringSummary, L2.scoringSummary)
            IN  /\ L.quarter = CurrentLabel(trace)
                /\ L2.quarter = CurrentLabel(trace')
                /\ L2.quarter # L.quarter => LabelSetBy(Last(trace')) = {L2.quarter}
                /\ \A i \in 1..Len(new) :
                    LabelOf(new[i]) =
                        IF new[i].type = "text" /\ IsFailure(new[i])
                            THEN L.quarter
                            ELSE L2.quarter]_vars

\* The scoring log holds an entry of the first quarter and a later one of
\* overtime, and the narration log a stat or event of each
C19_Witness ==
    LET L == loggers[TRUE]
    IN  /\ L.quarter = "OT"
        /\ Len(L.scoringSummary) = 2
        /\ L.scoringSummary[1].quarter = "Q1"
        /\ L.scoringSummary[2].quarter = "OT"
        /\ Len(L.playByPlay) = 3
        /\ L.playByPlay[2].text = <<"Start", "of", "overtime">>
        /\ L.playByPlay[2].quarter = "OT"

-----------------------------------------------------------------------------
(* C21: one two point attempt at a time *)

\* The conversion state is idle, attempting or converted, and a team is
\* recorded exactly when it is not idle
ConversionStateOK(L) ==
    /\ L.twoPointConversionState \in {undefined, "attempting", "converted"}
    /\ L.twoPointConversionTeam \in Sides \cup {NoTeam}
    /\ L.twoPointConversionTeam # NoTeam <=> L.twoPointConversionState # undefined

\* C21: in every state of a logger the conversion state is idle, attempting
\* or converted and a team is recorded exactly when it is not idle; a logEvent
\* call without a conversion tag, whether it returns or fails, leaves the
\* state idle with no team; a step appends at most one failure entry to each
\* log, and only by ending an attempt that was pending (attempting before,
\* idle after), so that no attempt gets a second one; a call that finds an
\* attempt pending never starts another for a different team.
C21_OneAttemptAtATime ==
    [][\A a \in BOOLEAN :
        LET L == loggers[a]
            L2 == loggers'[a]
            failures == CountFailures(L2.scoringSummary) - CountFailures(L.scoringSummary)
            narrated == CountFailures(L2.playByPlay) - CountFailures(L.playByPlay)
        IN  /\ ConversionStateOK(L)
            /\ ConversionStateOK(L2)
            /\ StepIsLogEvent /\ Untagged(StepCall) =>
                    /\ L2.twoPointConversionState = undefined
                    /\ L2.twoPointConversionTeam = NoTeam
            /\ failures \in {0, 1}
            /\ narrated = failures
            /\ failures = 1 =>
                    /\ L.twoPointConversionState = "attempting"
                    /\ L2.twoPointConversionState = undefined
                    /\ SynthesizesFailure(L, L2)
                    /\ L2.scoringSummary[Len(L.scoringSummary) + 1].t
                            = L.twoPointConversionTeam
            /\ L.twoPointConversionState # undefined
                /\ L2.twoPointConversionState # undefined =>
                    L2.twoPointConversionTeam = L.twoPointConversionTeam]_vars

\* An attempt has failed and got its one failure entry, and the next attempt
\* is pending
C21_Witness ==
    LET L == loggers[TRUE]
    IN  /\ L.twoPointConversionState = "attempting"
        /\ L.twoPointConversionTeam = 1
        /\ CountFailures(L.scoringSummary) = 1
        /\ Last(L.scoringSummary).t = 0

\* An attempt stands as converted
C21_WitnessConverted ==
    /\ loggers[FALSE].twoPointConversionState = "converted"
    /\ loggers[FALSE].twoPointConversionTeam = 0

-----------------------------------------------------------------------------
(* C22: a call that fails *)

\* C22: a logEvent call that fails leaves both logs, the quarter label and
\* the conversion state and team of the logger as they were.
C22_FailedCallEmitsNothing ==
    [][StepIsLogEvent /\ outcome' # "" =>
        \A a \in BOOLEAN : loggers'[a] = loggers[a]]_vars

\* What a failing call does leave alone: the quarter label, and the logs but
\* for the failure entry of an attempt that was pending; its own play is not
\* narrated
FailedCallNarratesNoPlay ==
    [][StepIsLogEvent /\ outcome' # "" =>
        \A a \in BOOLEAN :
            LET L == loggers[a]
                L2 == loggers'[a]
                closes == /\ Untagged(StepCall)
                          /\ L.twoPointConversionState = "attempting"
                          /\ L.playByPlay # <<>>
                failure == [type |-> "text",
                            text |-> FailedText,
                            t |-> L.twoPointConversionTeam,
                            time |-> TimeOf(Last(L.playByPlay)),
                            quarter |-> L.quarter]
            IN  /\ L2.quarter = L.quarter
                /\ IF closes
                       THEN /\ L2.playByPlay = Append(L.playByPlay, failure)
                            /\ L2.scoringSummary = Append(L.scoringSummary, failure)
                       ELSE /\ L2.playByPlay = L.playByPlay
                            /\ L2.scoringSummary = L.scoringSummary]_vars

-----------------------------------------------------------------------------
(* C23: the scoring log against the narration log *)

IsPrefix(xs, ys) == Len(xs) <= Len(ys) /\ SubSeq(ys, 1, Len(xs)) = xs

\* xs can be had from ys by leaving entries out
RECURSIVE IsSubsequence(_, _)
IsSubsequence(xs, ys) ==
    IF xs = <<>> THEN TRUE
    ELSE IF ys = <<>> THEN FALSE
    ELSE IF Head(xs) = Head(ys) THEN IsSubsequence(Tail(xs), Tail(ys))
    ELSE IsSubsequence(xs, Tail(ys))

TextEvents(log) == SelectSeq(log, LAMBDA e : e.type = "text")

\* C23: every logEvent or logStat call, whether it returns or fails, leaves
\* the entries already in the scoring log unchanged and in place, the old log
\* being a prefix of the new one, and likewise for the narration log; before
\* and after the call the scoring log is a subsequence, in the same order, of
\* the text events of the narration log.
C23_ScoringLogAppendOnlyAndMirrored ==
    [][\A a \in BOOLEAN :
        LET L == loggers[a]
            L2 == loggers'[a]
        IN  /\ IsPrefix(L.scoringSummary, L2.scoringSummary)
            /\ IsPrefix(L.playByPlay, L2.playByPlay)
            /\ IsSubsequence(L.scoringSummary, TextEvents(L.playByPlay))
            /\ IsSubsequence(L2.scoringSummary, TextEvents(L2.playByPlay))]_vars

\* The active logger's narration log holds a stat, a play that did not score
\* and a touchdown; its scoring log holds the touchdown only
C23_Witness ==
    LET L == loggers[TRUE]
    IN  /\ Len(L.playByPlay) = 3
        /\ \E i \in 1..3 : L.playByPlay[i].type = "stat"
        /\ Len(L.scoringSummary) = 1
        /\ L.scoringSummary[1] = L.playByPlay[3]
        /\ L.scoringSummary[1] # L.playByPlay[1]
        /\ L.scoringSummary[1] # L.playByPlay[2]

====
